---- MODULE Spec2Model ----
(***************************************************************************)
(* Model of infoblox_client/objects.py: the field-schema engine            *)
(* (BaseObject), the resource engine (InfobloxObject: create / fetch /     *)
(* update / delete against a connector), the address-family dispatch and   *)
(* the per-type descriptors with their property setters.                   *)
(*                                                                         *)
(* A Python value is a record tagged by "kind"; an instance __dict__ is a  *)
(* function whose DOMAIN is the set of attributes that have been set; a     *)
(* Python dict (kwargs, payloads, replies) is a sequence of <<key, value>> *)
(* pairs in insertion order.  An operation that can raise returns          *)
(* [d, err]: the instance __dict__ at the point of return or raise, and    *)
(* "ok" or the exception's name.                                           *)
(***************************************************************************)
EXTENDS Integers, Sequences, FiniteSets, TLC

VARIABLES
    pc,     \* "idle": no instance is held; "done": an operation has ended; "live": the caller holds obj
    obj,    \* the instance under test: [cls, d]
    op,     \* the last operation and its inputs
    calls,  \* the connector calls the last operation issued, in order
    res     \* what the last operation returned or raised

vars == <<pc, obj, op, calls, res>>

-----------------------------------------------------------------------------
(* Bounds of the model *)

\* keyword arguments per constructor call
MaxArgs == 2
\* keyword arguments per create call
MaxCreateArgs == 1
\* fields besides _ref in a connector reply payload
MaxReply == 1

-----------------------------------------------------------------------------
(* Python values *)

None == [kind |-> "none"]
Str(s) == [kind |-> "str", s |-> s]
PyInt(n) == [kind |-> "int", n |-> n]
List(items) == [kind |-> "list", items |-> items]
Dict(items) == [kind |-> "dict", items |-> items]
Instance(c, d) == [kind |-> "obj", cls |-> c, d |-> d]
\* the outcome of a failed attribute lookup
AttributeError == [kind |-> "AttributeError"]

\* bool(v)
Truthy(v) ==
    CASE v.kind = "none" -> FALSE
      [] v.kind = "str" -> v.s # ""
      [] v.kind = "int" -> v.n # 0
      [] v.kind \in {"list", "dict"} -> v.items # <<>>
      [] OTHER -> TRUE

\* str(v) of the values an address attribute can hold
str(v) ==
    CASE v.kind = "str" -> v
      [] v.kind = "none" -> Str("None")
      [] v.kind = "int" -> Str("<int>")
      [] OTHER -> Str("<object>")

(* Python dicts as sequences of <<key, value>> pairs with distinct keys *)
EmptyDict == <<>>
Keys(dd) == {dd[i][1] : i \in 1..Len(dd)}
HasKey(dd, k) == \E i \in 1..Len(dd) : dd[i][1] = k
Lookup(dd, k) == dd[CHOOSE i \in 1..Len(dd) : dd[i][1] = k][2]
\* dd[k] = v
SetItem(dd, k, v) ==
    IF HasKey(dd, k)
    THEN [i \in 1..Len(dd) |-> IF dd[i][1] = k THEN <<k, v>> ELSE dd[i]]
    ELSE Append(dd, <<k, v>>)

(* An instance __dict__ *)
NoAttrs == <<>>
Has(d, k) == k \in DOMAIN d
Put(d, k, v) == [x \in (DOMAIN d) \cup {k} |-> IF x = k THEN v ELSE d[x]]

(* An outcome [d, err]: err is "ok" and d the result, or err names the
   exception raised and d is what had been built when it was raised *)
Ok(d) == [d |-> d, err |-> "ok"]
Raise(d, e) == [d |-> d, err |-> e]
\* what an operation hands back: a returned value or a raised exception
Returned(v) == [kind |-> "return", v |-> v]
Raised(e) == [kind |-> "raise", err |-> e]
Outcome(r) == IF r.err = "ok" THEN Returned(r.d) ELSE Raised(r.err)

SeqToSet(s) == {s[i] : i \in 1..Len(s)}

-----------------------------------------------------------------------------
(* Descriptors: the class attributes of every type of objects.py *)

NetworkLeaves == {"NetworkV4", "NetworkV6"}
HostRecordLeaves == {"HostRecordV4", "HostRecordV6"}
IPRangeLeaves == {"IPRangeV4", "IPRangeV6"}
FixedAddressLeaves == {"FixedAddressV4", "FixedAddressV6"}
IPAddressLeaves == {"IPv4Address", "IPv6Address"}

\* the family entry points, which get_class_from_args replaces by a leaf
EntryClasses ==
    {"Network", "HostRecord", "IPRange", "FixedAddress", "ARecordBase",
     "PtrRecord", "IPAddress"}

LeafClasses ==
    NetworkLeaves \cup HostRecordLeaves \cup IPRangeLeaves \cup FixedAddressLeaves
    \cup IPAddressLeaves
    \cup {"ARecord", "AAAARecord", "PtrRecordV4", "PtrRecordV6",
          "NetworkView", "DNSView", "DNSZone", "Member"}

ResourceClasses == EntryClasses \cup LeafClasses

\* IP and its subclasses: isinstance(x, IP)
IPClasses == {"IP", "IPv4", "IPv6"}

SubObjectClasses == IPClasses \cup {"AnyMember"}

_fields(c) ==
    CASE c \in NetworkLeaves \cup {"Network"} ->
            <<"network_view", "network", "template", "options", "nameservers",
              "members", "gateway_ip", "extattrs">>
      [] c = "HostRecordV4" -> <<"ipv4addrs", "view", "extattrs", "name">>
      [] c = "HostRecordV6" -> <<"ipv6addrs", "view", "extattrs", "name">>
      [] c = "IPv4" -> <<"ipv4addr", "configure_for_dhcp", "host", "mac">>
      [] c = "IPv6" -> <<"ipv6addr", "configure_for_dhcp", "host", "duid">>
      [] c = "AnyMember" -> <<"_struct", "name", "ipv4addr", "ipv6addr">>
      [] c \in IPRangeLeaves \cup {"IPRange"} ->
            <<"start_addr", "end_addr", "network_view", "network", "extattrs",
              "disable">>
      [] c = "FixedAddressV4" -> <<"ipv4addr", "mac", "network_view", "extattrs">>
      [] c = "FixedAddressV6" -> <<"ipv6addr", "duid", "network_view", "extattrs">>
      [] c = "ARecord" -> <<"ipv4addr", "name", "view", "extattrs">>
      [] c = "AAAARecord" -> <<"ipv6addr", "name", "view", "extattrs">>
      [] c = "PtrRecordV4" -> <<"view", "ipv4addr", "ptrdname", "extattrs">>
      [] c = "PtrRecordV6" -> <<"view", "ipv6addr", "ptrdname", "extattrs">>
      [] c = "NetworkView" -> <<"name", "extattrs">>
      [] c = "DNSView" -> <<"name", "network_view">>
      [] c = "DNSZone" ->
            <<"_ref", "fqdn", "view", "extattrs", "zone_format", "ns_group",
              "prefix", "grid_primary", "grid_secondaries">>
      [] c = "Member" -> <<"host_name", "ipv6_setting", "node_info", "vip_setting">>
      [] c \in IPAddressLeaves \cup {"IPAddress"} ->
            <<"network_view", "ip_address", "objects">>
      [] OTHER -> <<>>

_search_fields(c) ==
    CASE c \in NetworkLeaves \cup {"Network"} -> <<"network_view", "network">>
      [] c = "HostRecordV4" -> <<"view", "ipv4addr">>
      [] c = "HostRecordV6" -> <<"ipv6addr", "view", "name">>
      [] c \in IPRangeLeaves \cup {"IPRange"} -> <<"network_view", "start_addr">>
      [] c = "FixedAddressV4" -> <<"ipv4addr", "mac", "network_view">>
      [] c = "FixedAddressV6" -> <<"ipv6addr", "duid", "network_view">>
      [] c = "ARecord" -> <<"ipv4addr", "view">>
      [] c = "AAAARecord" -> <<"ipv6addr", "view">>
      [] c = "PtrRecordV4" -> <<"view", "ipv4addr">>
      [] c = "PtrRecordV6" -> <<"view", "ipv6addr">>
      [] c = "NetworkView" -> <<"name">>
      [] c = "DNSView" -> <<"name", "network_view">>
      [] c = "DNSZone" -> <<"fqdn", "view">>
      [] c = "Member" -> <<"host_name">>
      [] c \in IPAddressLeaves \cup {"IPAddress"} -> <<"network_view", "ip_address">>
      [] OTHER -> <<>>

_shadow_fields(c) ==
    CASE c \in NetworkLeaves \cup {"Network"} -> <<"_ref">>
      [] c = "HostRecordV4" -> <<"_ref", "ipv4addr">>
      [] c = "HostRecordV6" -> <<"_ref", "ipv6addr">>
      [] c \in IPClasses -> <<"_ref", "ip">>
      [] c = "AnyMember" -> <<"ip">>
      [] c \in IPRangeLeaves \cup {"IPRange"} -> <<"_ref">>
      [] c = "FixedAddressV4" -> <<"_ref", "ip">>
      [] c = "FixedAddressV6" -> <<"_ref", "mac", "ip">>
      [] c \in {"ARecord", "AAAARecord", "PtrRecordV4", "PtrRecordV6"} -> <<"_ref">>
      [] c \in {"NetworkView", "DNSView"} -> <<"_ref", "is_default">>
      [] c = "DNSZone" -> <<"_ref">>
      [] c = "Member" -> <<"_ref", "ip">>
      [] c \in IPAddressLeaves \cup {"IPAddress"} -> <<"_ref">>
      [] OTHER -> <<>>

_return_fields(c) ==
    CASE c \in NetworkLeaves \cup {"Network"} ->
            <<"network_view", "network", "options", "members">>
      [] c = "HostRecordV4" -> <<"ipv4addrs">>
      [] c = "HostRecordV6" -> <<"ipv6addrs">>
      [] c \in IPRangeLeaves \cup {"IPRange"} ->
            <<"start_addr", "end_addr", "network_view", "extattrs">>
      [] c = "FixedAddressV4" -> <<"ipv4addr", "mac", "network_view", "extattrs">>
      [] c = "FixedAddressV6" -> <<"ipv6addr", "duid", "network_view", "extattrs">>
      [] c \in IPAddressLeaves \cup {"IPAddress"} -> <<"objects">>
      [] OTHER -> <<>>

\* the alias table, alias -> canonical name, as a dict
_remap(c) ==
    CASE c \in NetworkLeaves \cup {"Network"} -> <<<<"cidr", "network">>>>
      [] c = "HostRecordV4" -> <<<<"ip", "ipv4addrs">>>>
      [] c = "HostRecordV6" -> <<<<"ip", "ipv6addrs">>>>
      [] c = "IPv4" -> <<<<"ipv4addr", "ip">>>>
      [] c = "IPv6" -> <<<<"ipv6addr", "ip">>>>
      [] c \in IPRangeLeaves \cup {"IPRange"} -> <<<<"cidr", "network">>>>
      [] c = "FixedAddressV4" -> <<<<"ipv4addr", "ip">>>>
      [] c = "FixedAddressV6" -> <<<<"ipv6addr", "ip">>>>
      [] c \in {"ARecord", "PtrRecordV4"} -> <<<<"ip", "ipv4addr">>>>
      [] c \in {"AAAARecord", "PtrRecordV6"} -> <<<<"ip", "ipv6addr">>>>
      [] c = "Member" -> <<<<"name", "host_name">>>>
      [] OTHER -> <<>>

_infoblox_type(c) ==
    CASE c = "NetworkV4" -> "network"
      [] c = "NetworkV6" -> "ipv6network"
      [] c \in HostRecordLeaves \cup {"HostRecord"} -> "record:host"
      [] c = "IPRangeV4" -> "range"
      [] c = "IPRangeV6" -> "ipv6range"
      [] c = "FixedAddressV4" -> "fixedaddress"
      [] c = "FixedAddressV6" -> "ipv6fixedaddress"
      [] c = "ARecord" -> "record:a"
      [] c = "AAAARecord" -> "record:aaaa"
      [] c \in {"PtrRecord", "PtrRecordV4", "PtrRecordV6"} -> "record:ptr"
      [] c = "NetworkView" -> "networkview"
      [] c = "DNSView" -> "view"
      [] c = "DNSZone" -> "zone_auth"
      [] c = "Member" -> "member"
      [] c = "IPv4Address" -> "ipv4address"
      [] c = "IPv6Address" -> "ipv6address"
      [] OTHER -> "None"

\* "None" for a class that needs the versioned-class lookup
_ip_version(c) ==
    CASE c \in {"NetworkV4", "HostRecordV4", "IPRangeV4", "FixedAddressV4",
                "ARecord", "PtrRecordV4", "IPv4Address"} -> "4"
      [] c \in {"NetworkV6", "HostRecordV6", "IPRangeV6", "FixedAddressV6",
                "AAAARecord", "PtrRecordV6", "IPv6Address"} -> "6"
      [] c \in {"NetworkView", "DNSView", "DNSZone", "Member"} -> "any"
      [] OTHER -> "None"

get_v4_class(c) ==
    CASE c \in NetworkLeaves \cup {"Network"} -> "NetworkV4"
      [] c \in HostRecordLeaves \cup {"HostRecord"} -> "HostRecordV4"
      [] c \in IPRangeLeaves \cup {"IPRange"} -> "IPRangeV4"
      [] c \in FixedAddressLeaves \cup {"FixedAddress"} -> "FixedAddressV4"
      [] c \in {"ARecordBase", "ARecord", "AAAARecord"} -> "ARecord"
      [] c \in {"PtrRecord", "PtrRecordV4", "PtrRecordV6"} -> "PtrRecordV4"
      [] c \in IPAddressLeaves \cup {"IPAddress"} -> "IPv4Address"
      [] OTHER -> c

get_v6_class(c) ==
    CASE c \in NetworkLeaves \cup {"Network"} -> "NetworkV6"
      [] c \in HostRecordLeaves \cup {"HostRecord"} -> "HostRecordV6"
      [] c \in IPRangeLeaves \cup {"IPRange"} -> "IPRangeV6"
      [] c \in FixedAddressLeaves \cup {"FixedAddress"} -> "FixedAddressV6"
      [] c \in {"ARecordBase", "ARecord", "AAAARecord"} -> "AAAARecord"
      [] c \in {"PtrRecord", "PtrRecordV4", "PtrRecordV6"} -> "PtrRecordV6"
      [] c \in IPAddressLeaves \cup {"IPAddress"} -> "IPv6Address"
      [] OTHER -> c

-----------------------------------------------------------------------------
(* Helpers of infoblox_client.utils, which objects.py calls *)

\* the address literals of the model
V4Addr == "10.0.0.5"
V4Other == "10.0.0.9"
V6Addr == "fe80::1"

RECURSIVE determine_ip_version(_)
determine_ip_version(ip_in) ==
    CASE ip_in.kind = "list" /\ ip_in.items # <<>> -> determine_ip_version(ip_in.items[1])
      [] ip_in.kind = "obj" /\ ip_in.cls = "IPv6" -> 6
      [] ip_in.kind = "str" /\ ip_in.s = V6Addr -> 6
      [] OTHER -> 4

generate_duid(mac) == Str("00:" \o mac.s)

is_valid_ip(ip) == ip.kind = "str" /\ ip.s \in {V4Addr, V4Other, V6Addr}

-----------------------------------------------------------------------------
(* Attribute access: the properties, BaseObject.__getattr__ / __setattr__ *)

\* the names a class defines as properties over a private slot
Properties(c) ==
    CASE c = "HostRecordV4" -> {"ipv4addrs"}
      [] c = "HostRecordV6" -> {"ipv6addrs"}
      [] c \in IPClasses \cup {"AnyMember"} -> {"ip"}
      [] c \in {"FixedAddress", "FixedAddressV4"} -> {"ip"}
      [] c = "FixedAddressV6" -> {"ip", "mac"}
      [] OTHER -> {}

\* the property getters; AttributeError when the getter raises it
PropertyGet(c, d, name) ==
    CASE name \in {"ipv4addrs", "ipv6addrs"} ->
            IF Has(d, "_" \o name) THEN d["_" \o name] ELSE AttributeError
      [] name = "ip" /\ c \in FixedAddressLeaves \cup {"FixedAddress"} ->
            IF Has(d, "_ip") /\ Truthy(d["_ip"]) THEN str(d["_ip"]) ELSE None
      [] name = "ip" ->
            IF Has(d, "_ip") THEN str(d["_ip"]) ELSE None
      [] name = "mac" ->
            IF Has(d, "_mac") THEN d["_mac"] ELSE AttributeError

\* the normal lookup: a property of the class, then the instance __dict__
__getattribute__(c, d, name) ==
    IF name \in Properties(c) THEN PropertyGet(c, d, name)
    ELSE IF Has(d, name) THEN d[name]
    ELSE AttributeError

IfMissing(found, otherwise) == IF found # AttributeError THEN found ELSE otherwise

RECURSIVE getattr(_, _, _)

\* BaseObject.__getattr__, called when the normal lookup fails
__getattr__(c, d, name) ==
    IF HasKey(_remap(c), name) THEN getattr(c, d, Lookup(_remap(c), name))
    ELSE AttributeError

\* getattr(self, name)
getattr(c, d, name) == IfMissing(__getattribute__(c, d, name), __getattr__(c, d, name))

hasattr(c, d, name) == getattr(c, d, name) # AttributeError

\* getattr(self, name, None)
getattr_or_none(c, d, name) == IfMissing(getattr(c, d, name), None)

\* BaseObject.ref: self._ref if hasattr(self, '_ref'), else None
ref(c, d) == getattr_or_none(c, d, "_ref")

RECURSIVE setattr(_, _, _, _)

\* the second setattr of a branch of _ip_setter, unless the first raised
SetListField(c, first, ipaddrs_name, value) ==
    IF first.err # "ok" THEN first ELSE setattr(c, first.d, ipaddrs_name, value)

\* HostRecord._ip_setter
_ip_setter(c, d, ipaddr_name, ipaddrs_name, ips) ==
    IF ips.kind = "str" THEN setattr(c, d, ipaddr_name, ips)
    ELSE IF ips.kind = "list" /\ ips.items = <<>> THEN Raise(d, "IndexError")
    ELSE IF ips.kind = "list" /\ ips.items[1].kind = "obj"
                              /\ ips.items[1].cls \in IPClasses
    THEN SetListField(c, setattr(c, d, ipaddr_name,
                                 getattr(ips.items[1].cls, ips.items[1].d, "ip")),
                      ipaddrs_name, ips)
    ELSE IF ips.kind = "obj" /\ ips.cls \in IPClasses
    THEN SetListField(c, setattr(c, d, ipaddr_name, getattr(ips.cls, ips.d, "ip")),
                      ipaddrs_name, List(<<ips>>))
    ELSE IF ips.kind = "none"
    THEN SetListField(c, setattr(c, d, ipaddr_name, None), ipaddrs_name, None)
    ELSE Raise(d, "ValueError")

\* the property setters
PropertySet(c, d, name, value) ==
    CASE name = "ipv4addrs" -> _ip_setter(c, d, "ipv4addr", "_ipv4addrs", value)
      [] name = "ipv6addrs" -> _ip_setter(c, d, "ipv6addr", "_ipv6addrs", value)
      [] name = "ip" /\ c = "AnyMember" ->
            IF determine_ip_version(value) = 6
            THEN setattr(c, Put(d, "_ip", value), "ipv6addr", value)
            ELSE setattr(c, Put(d, "_ip", value), "ipv4addr", value)
      [] name = "ip" -> Ok(Put(d, "_ip", value))
      [] name = "mac" ->
            IF Truthy(value)
            THEN setattr(c, Put(d, "_mac", value), "duid", generate_duid(value))
            ELSE IF ~hasattr(c, Put(d, "_mac", value), "duid")
            THEN setattr(c, Put(d, "_mac", value), "duid", None)
            ELSE Ok(Put(d, "_mac", value))

\* setattr(self, name, value): BaseObject.__setattr__, then a property setter
\* or the instance __dict__
setattr(c, d, name, value) ==
    IF HasKey(_remap(c), name) THEN setattr(c, d, Lookup(_remap(c), name), value)
    ELSE IF name \in Properties(c) THEN PropertySet(c, d, name, value)
    ELSE Ok(Put(d, name, value))

-----------------------------------------------------------------------------
(* BaseObject: construction and serialization *)

\* BaseObject._remap_fields: the mapped dict, or ValueError
RECURSIVE RemapLoop(_, _, _, _)
RemapLoop(c, kwargs, i, mapped) ==
    IF i > Len(kwargs) THEN Ok(mapped)
    ELSE IF HasKey(_remap(c), kwargs[i][1])
    THEN RemapLoop(c, kwargs, i + 1,
                   SetItem(mapped, Lookup(_remap(c), kwargs[i][1]), kwargs[i][2]))
    ELSE IF kwargs[i][1] \in SeqToSet(_fields(c))
            \/ kwargs[i][1] \in SeqToSet(_shadow_fields(c))
    THEN RemapLoop(c, kwargs, i + 1, SetItem(mapped, kwargs[i][1], kwargs[i][2]))
    ELSE Raise(mapped, "ValueError")

_remap_fields(c, kwargs) == RemapLoop(c, kwargs, 1, EmptyDict)

\* one turn of the loop of BaseObject.__init__
InitField(c, d, mapped_args, field) ==
    IF HasKey(mapped_args, field) THEN setattr(c, d, field, Lookup(mapped_args, field))
    ELSE IF ~hasattr(c, d, field) THEN setattr(c, d, field, None)
    ELSE Ok(d)

\* the loop of BaseObject.__init__ over _fields + _shadow_fields
RECURSIVE InitLoop(_, _, _, _, _)
\* the turns from i on, unless the turn before raised
InitRest(c, turn, mapped_args, fs, i) ==
    IF turn.err # "ok" THEN turn ELSE InitLoop(c, turn.d, mapped_args, fs, i)

InitLoop(c, d, mapped_args, fs, i) ==
    IF i > Len(fs) THEN Ok(d)
    ELSE InitRest(c, InitField(c, d, mapped_args, fs[i]), mapped_args, fs, i + 1)

InitMapped(c, mapped_args) ==
    IF mapped_args.err # "ok" THEN Raise(NoAttrs, mapped_args.err)
    ELSE InitLoop(c, NoAttrs, mapped_args.d, _fields(c) \o _shadow_fields(c), 1)

\* BaseObject.__init__ on a fresh instance of class c: its __dict__
__init__(c, kwargs) == InitMapped(c, _remap_fields(c, kwargs))

\* BaseObject.to_dict / SubObjects.to_dict: the declared fields that are not None
RECURSIVE SubToDictLoop(_, _, _, _)
SubToDictLoop(c, d, i, out) ==
    IF i > Len(_fields(c)) THEN out
    ELSE IF getattr_or_none(c, d, _fields(c)[i]) # None
    THEN SubToDictLoop(c, d, i + 1,
                       SetItem(out, _fields(c)[i], getattr(c, d, _fields(c)[i])))
    ELSE SubToDictLoop(c, d, i + 1, out)

SubObjects_to_dict(c, d) == Dict(SubToDictLoop(c, d, 1, EmptyDict))

AsInstance(c, r) == [d |-> Instance(c, r.d), err |-> r.err]

\* SubObjects.from_dict: cls(**ip_dict)
SubObjects_from_dict(c, ip_dict) == AsInstance(c, __init__(c, ip_dict))

-----------------------------------------------------------------------------
(* InfobloxObject *)

DispatchNames == <<"ip", "cidr", "start_ip", "ip_address">>

\* the first of DispatchNames that kwargs holds, "" when it holds none
FirstDispatchName(kwargs) ==
    IF \E i \in 1..Len(DispatchNames) : HasKey(kwargs, DispatchNames[i])
    THEN DispatchNames[CHOOSE i \in 1..Len(DispatchNames) :
                          /\ HasKey(kwargs, DispatchNames[i])
                          /\ \A j \in 1..(i - 1) : ~HasKey(kwargs, DispatchNames[j])]
    ELSE ""

\* get_class_from_args without the early return for a versioned class
get_class_rescanning(cls, kwargs) ==
    IF FirstDispatchName(kwargs) # ""
    THEN IF determine_ip_version(Lookup(kwargs, FirstDispatchName(kwargs))) = 6
         THEN get_v6_class(cls)
         ELSE get_v4_class(cls)
    ELSE get_v4_class(cls)

\* InfobloxObject.get_class_from_args
get_class_from_args(cls, kwargs) ==
    IF _ip_version(cls) # "None" THEN cls
    ELSE IF FirstDispatchName(kwargs) # ""
    THEN IF determine_ip_version(Lookup(kwargs, FirstDispatchName(kwargs))) = 6
         THEN get_v6_class(cls)
         ELSE get_v4_class(cls)
    ELSE get_v4_class(cls)

\* an instance of class c as a value, or the exception its __init__ raised
NewInstance(c, kwargs) == AsInstance(c, __init__(c, kwargs))

\* cls(connector, **kwargs): __new__ picks the class, __init__ fills the fields
New(cls, kwargs) == NewInstance(get_class_from_args(cls, kwargs), kwargs)

\* one turn of the loop of update_from_dict
UpdateField(c, d, ip_dict, mapped_args, field) ==
    IF ~HasKey(ip_dict, field) THEN Ok(d)
    ELSE IF HasKey(mapped_args, field)
    THEN setattr(c, d, field, Lookup(mapped_args, field))
    ELSE Raise(d, "KeyError")

RECURSIVE UpdateLoop(_, _, _, _, _, _)
\* the turns from i on, unless the turn before raised
UpdateRest(c, turn, ip_dict, mapped_args, fs, i) ==
    IF turn.err # "ok" THEN turn ELSE UpdateLoop(c, turn.d, ip_dict, mapped_args, fs, i)

UpdateLoop(c, d, ip_dict, mapped_args, fs, i) ==
    IF i > Len(fs) THEN Ok(d)
    ELSE UpdateRest(c, UpdateField(c, d, ip_dict, mapped_args, fs[i]),
                    ip_dict, mapped_args, fs, i + 1)

UpdateMapped(c, d, ip_dict, mapped_args) ==
    IF mapped_args.err # "ok" THEN Raise(d, mapped_args.err)
    ELSE UpdateLoop(c, d, ip_dict, mapped_args.d, _fields(c) \o _shadow_fields(c), 1)

\* InfobloxObject.update_from_dict
update_from_dict(c, d, ip_dict) == UpdateMapped(c, d, ip_dict, _remap_fields(c, ip_dict))

\* InfobloxObject.value_to_dict
value_to_dict(value) ==
    IF value.kind = "obj" THEN SubObjects_to_dict(value.cls, value.d) ELSE value

ListToDict(value) ==
    IF value.kind = "list"
    THEN List([i \in 1..Len(value.items) |-> value_to_dict(value.items[i])])
    ELSE value_to_dict(value)

\* InfobloxObject.field_to_dict
field_to_dict(c, d, field) == ListToDict(getattr(c, d, field))

\* the fields to_dict walks in each mode: "all" is search_fields=None
ModeFields(c, search_fields) ==
    CASE search_fields = "only" -> _search_fields(c)
      [] search_fields = "exclude" ->
            SelectSeq(_fields(c), LAMBDA f : f \notin SeqToSet(_search_fields(c)))
      [] OTHER -> _fields(c)

RECURSIVE ToDictLoop(_, _, _, _, _)
ToDictLoop(c, d, fs, i, out) ==
    IF i > Len(fs) THEN out
    ELSE IF getattr_or_none(c, d, fs[i]) # None
    THEN ToDictLoop(c, d, fs, i + 1, SetItem(out, fs[i], field_to_dict(c, d, fs[i])))
    ELSE ToDictLoop(c, d, fs, i + 1, out)

\* InfobloxObject.to_dict(search_fields)
to_dict(c, d, search_fields) ==
    ToDictLoop(c, d, ModeFields(c, search_fields), 1, EmptyDict)

\* [AnyMember.from_dict(m) for m in members] / [IPvX.from_dict(a) for a in ips]
RECURSIVE BuildList(_, _, _, _)
\* the elements from i on, unless building the one before raised
BuildRest(c, dicts, i, out, built) ==
    IF built.err # "ok" THEN built ELSE BuildList(c, dicts, i, Append(out, built.d))

BuildList(c, dicts, i, out) ==
    IF i > Len(dicts) THEN Ok(List(out))
    ELSE IF dicts[i].kind # "dict" THEN Raise(List(out), "TypeError")
    ELSE BuildRest(c, dicts, i + 1, out, SubObjects_from_dict(c, dicts[i].items))

\* Network._build_member / DNSZone._build_member
_build_member(members) ==
    IF ~Truthy(members) THEN Ok(None)
    ELSE IF members.kind # "list" THEN Raise(None, "TypeError")
    ELSE BuildList("AnyMember", members.items, 1, <<>>)

\* HostRecordV4._build_ipv4 / HostRecordV6._build_ipv6
_build_ip(ip_cls, addr_name, ips) ==
    IF ~Truthy(ips) THEN Raise(None, "HostRecordNotPresent")
    ELSE IF ips.kind # "list" \/ ips.items[1].kind # "dict"
    THEN Raise(None, "TypeError")
    ELSE IF ~HasKey(ips.items[1].items, addr_name) THEN Raise(None, "KeyError")
    ELSE IF ~is_valid_ip(Lookup(ips.items[1].items, addr_name))
    THEN Raise(None, "InfobloxInvalidIp")
    ELSE BuildList(ip_cls, ips.items, 1, <<>>)

\* the keys of _custom_field_processing
CustomFields(c) ==
    CASE c \in NetworkLeaves \cup {"Network"} -> <<"members">>
      [] c = "HostRecordV4" -> <<"ipv4addrs">>
      [] c = "HostRecordV6" -> <<"ipv6addrs">>
      [] c = "DNSZone" -> <<"primary_dns_members", "secondary_dns_members">>
      [] OTHER -> <<>>

\* _custom_field_processing[field](value)
CustomProcess(c, field, value) ==
    CASE c = "HostRecordV4" -> _build_ip("IPv4", "ipv4addr", value)
      [] c = "HostRecordV6" -> _build_ip("IPv6", "ipv6addr", value)
      [] OTHER -> _build_member(value)

\* the loop of InfobloxObject.from_dict over _custom_field_processing
RECURSIVE CustomLoop(_, _, _)
\* ip_dict[field] = the processed value, and the turns after i, unless the
\* processor raised
CustomRest(c, ip_dict, i, processed) ==
    IF processed.err # "ok" THEN processed
    ELSE CustomLoop(c, SetItem(ip_dict, CustomFields(c)[i], processed.d), i + 1)

CustomLoop(c, ip_dict, i) ==
    IF i > Len(CustomFields(c)) THEN Ok(ip_dict)
    ELSE IF HasKey(ip_dict, CustomFields(c)[i])
    THEN CustomRest(c, ip_dict, i,
                    CustomProcess(c, CustomFields(c)[i],
                                  Lookup(ip_dict, CustomFields(c)[i])))
    ELSE CustomLoop(c, ip_dict, i + 1)

\* return cls(connector, **ip_dict), unless a processor raised
FromProcessed(c, processed) ==
    IF processed.err # "ok" THEN Raised(processed.err)
    ELSE Outcome(New(c, processed.d))

\* InfobloxObject.from_dict(connector, ip_dict)
from_dict(c, ip_dict) == FromProcessed(c, CustomLoop(c, ip_dict, 1))

\* InfobloxObject._object_from_reply(parse_class, connector, reply)
_object_from_reply(parse_class, reply) ==
    IF ~Truthy(reply) THEN Returned(None)
    ELSE from_dict(parse_class,
                   IF reply.kind = "dict" THEN reply.items ELSE <<<<"_ref", reply>>>>)

(* The connector calls an operation issues *)
NoPayload == [kind |-> "nopayload"]
GetObject(target, payload, return_fields) ==
    [fn |-> "get_object", target |-> target, payload |-> payload,
     return_fields |-> return_fields]
CreateObject(target, payload, return_fields) ==
    [fn |-> "create_object", target |-> target, payload |-> payload,
     return_fields |-> return_fields]
UpdateObject(target, payload, return_fields) ==
    [fn |-> "update_object", target |-> target, payload |-> payload,
     return_fields |-> return_fields]
DeleteObject(target) ==
    [fn |-> "delete_object", target |-> target, payload |-> NoPayload,
     return_fields |-> <<>>]

\* fetch: connector.get_object(self.ref, return_fields=...)
GetByRef(c, d) == GetObject(ref(c, d), NoPayload, _return_fields(c))
\* fetch: connector.get_object(self.infoblox_type, search_dict, return_fields=...)
GetBySearch(c, d) ==
    GetObject(Str(_infoblox_type(c)), Dict(to_dict(c, d, "only")), _return_fields(c))

\* fetch after update_from_dict(reply): return True, unless the merge raised
Fetched(merged, issued) ==
    [d |-> merged.d, err |-> merged.err, ret |-> merged.err = "ok", calls |-> issued]

\* the second half of fetch: the lookup by the search fields
FetchBySearch(c, d, by_search, issued) ==
    IF Truthy(by_search)
    THEN Fetched(update_from_dict(c, d, by_search.items[1].items), issued)
    ELSE [d |-> d, err |-> "ok", ret |-> FALSE, calls |-> issued]

\* fetch without the lookup by reference
fetch_by_search_only(c, d, by_ref, by_search) ==
    FetchBySearch(c, d, by_search, <<GetBySearch(c, d)>>)

\* InfobloxObject.fetch; by_ref and by_search are the connector's replies to
\* the lookup by reference and to the lookup by the search fields
fetch(c, d, by_ref, by_search) ==
    IF Truthy(ref(c, d)) /\ Truthy(by_ref)
    THEN Fetched(update_from_dict(c, d, by_ref.items), <<GetByRef(c, d)>>)
    ELSE IF Truthy(ref(c, d))
    THEN FetchBySearch(c, d, by_search, <<GetByRef(c, d), GetBySearch(c, d)>>)
    ELSE FetchBySearch(c, d, by_search, <<GetBySearch(c, d)>>)

\* the write call of create with the payload of an update in both branches
WriteCallExcludingSearch(c, d, update_if_exists) ==
    IF ~Truthy(ref(c, d))
    THEN <<CreateObject(Str(_infoblox_type(c)), Dict(to_dict(c, d, "exclude")),
                        _return_fields(c))>>
    ELSE IF update_if_exists
    THEN <<UpdateObject(ref(c, d), Dict(to_dict(c, d, "exclude")), _return_fields(c))>>
    ELSE <<>>

\* the write call of create, if it issues one
WriteCall(c, d, update_if_exists) ==
    IF ~Truthy(ref(c, d))
    THEN <<CreateObject(Str(_infoblox_type(c)), Dict(to_dict(c, d, "all")),
                        _return_fields(c))>>
    ELSE IF update_if_exists
    THEN <<UpdateObject(ref(c, d), Dict(to_dict(c, d, "exclude")), _return_fields(c))>>
    ELSE <<>>

\* the tail of create: reply = None, the write call, _object_from_reply
CreateWrite(c, d, issued, update_if_exists, write_reply) ==
    [local |-> Instance(c, d),
     calls |-> issued \o WriteCall(c, d, update_if_exists),
     res |-> _object_from_reply(c, IF ~Truthy(ref(c, d)) \/ update_if_exists
                                    THEN write_reply ELSE None)]

\* create after local_obj.fetch()
CreateFetched(c, f, update_if_exists, write_reply) ==
    IF f.err # "ok"
    THEN [local |-> Instance(c, f.d), calls |-> f.calls, res |-> Raised(f.err)]
    ELSE IF f.ret /\ ~update_if_exists
    THEN [local |-> Instance(c, f.d), calls |-> f.calls,
          res |-> Returned(Instance(c, f.d))]
    ELSE CreateWrite(c, f.d, f.calls, update_if_exists, write_reply)

\* create after local_obj = cls(connector, **kwargs); f is what
\* local_obj.fetch() gives, looked at only if check_if_exists
CreateLocal(made, f, check_if_exists, update_if_exists, write_reply) ==
    IF made.err # "ok"
    THEN [local |-> made.d, calls |-> <<>>, res |-> Raised(made.err)]
    ELSE IF check_if_exists
    THEN CreateFetched(made.d.cls, f, update_if_exists, write_reply)
    ELSE CreateWrite(made.d.cls, made.d.d, <<>>, update_if_exists, write_reply)

\* create from the instance made on
CreateMade(made, check_if_exists, update_if_exists, by_ref, by_search, write_reply) ==
    CreateLocal(made, fetch(made.d.cls, made.d.d, by_ref, by_search),
                check_if_exists, update_if_exists, write_reply)

\* InfobloxObject.create(connector, check_if_exists, update_if_exists, **kwargs)
create(cls, kwargs, check_if_exists, update_if_exists, by_ref, by_search, write_reply) ==
    CreateMade(New(cls, kwargs), check_if_exists, update_if_exists,
               by_ref, by_search, write_reply)

\* InfobloxObject.update
update(c, d, write_reply) ==
    [calls |-> <<UpdateObject(ref(c, d), Dict(to_dict(c, d, "exclude")),
                              _return_fields(c))>>,
     res |-> _object_from_reply(c, write_reply)]

\* delete with an except clause that catches every exception
delete_catching_all(c, d, outcome) ==
    [calls |-> <<DeleteObject(ref(c, d))>>, res |-> Returned(None)]

\* InfobloxObject.delete; outcome is "ok" or the exception delete_object raises
delete(c, d, outcome) ==
    [calls |-> <<DeleteObject(ref(c, d))>>,
     res |-> IF outcome \in {"ok", "InfobloxCannotDeleteObject"}
             THEN Returned(None) ELSE Raised(outcome)]

-----------------------------------------------------------------------------
(* The inputs the operations are exercised with *)

AllClasses == ResourceClasses \cup SubObjectClasses

\* every name a descriptor gives a meaning to
Names(c) == Keys(_remap(c)) \cup SeqToSet(_fields(c)) \cup SeqToSet(_shadow_fields(c))

\* the names the code of objects.py spells out
LiteralNames ==
    {"_ref", "ip", "cidr", "start_ip", "ip_address", "ipv4addr", "ipv6addr",
     "ipv4addrs", "ipv6addrs", "mac", "duid"}

\* what the code can tell about a name of class c
Role(c, n) ==
    <<n \in Keys(_remap(c)),
      \E k \in Keys(_remap(c)) : Lookup(_remap(c), k) = n,
      n \in SeqToSet(_fields(c)),
      n \in SeqToSet(_search_fields(c)),
      n \in SeqToSet(_shadow_fields(c)),
      n \in SeqToSet(_return_fields(c)),
      n \in SeqToSet(CustomFields(c)),
      n \in Properties(c),
      IF n \in LiteralNames THEN n ELSE "">>

\* one name of class c for each role
RoleNames(c) == {CHOOSE m \in Names(c) : Role(c, m) = Role(c, n) : n \in Names(c)}

\* the names a constructor call is given: those of either leaf of the family
\* and one no descriptor knows
ArgNames(cls) ==
    RoleNames(get_v4_class(cls)) \cup RoleNames(get_v6_class(cls)) \cup {"bogus"}

AddressNames ==
    {"ip", "cidr", "start_ip", "ip_address", "ipv4addr", "ipv6addr", "network",
     "start_addr", "end_addr", "gateway_ip"}

IPv4Object == NewInstance("IPv4", <<<<"ip", Str(V4Addr)>>>>).d
AnyMemberObject == NewInstance("AnyMember", <<<<"name", Str("m1")>>>>).d

\* the shapes the address-list setter is given
IpShapes ==
    {Str(V4Addr), Str(V6Addr), None, List(<<>>), List(<<IPv4Object>>), IPv4Object,
     List(<<Str(V4Addr)>>)}

\* the values a caller gives the argument of that name
ArgValues(cls, name) ==
    CASE name \in {"ipv4addrs", "ipv6addrs"} -> IpShapes
      [] name = "ip" /\ get_v4_class(cls) = "HostRecordV4" -> IpShapes
      [] name \in AddressNames -> {Str(V4Addr), Str(V6Addr)}
      [] name = "mac" -> {Str("aa:bb"), None}
      [] name = "_ref" -> {Str("ref/1")}
      [] name = "members" -> {List(<<AnyMemberObject>>)}
      [] OTHER -> {Str("x")}

\* the values the server sends for the field of that name
ServerValue(c, name) ==
    CASE name = "ipv4addrs" ->
            {List(<<Dict(<<<<"ipv4addr", Str(V4Other)>>>>)>>), List(<<>>),
             List(<<Dict(<<<<"ipv4addr", Str("bad")>>>>)>>)}
      [] name = "ipv6addrs" ->
            {List(<<Dict(<<<<"ipv6addr", Str(V6Addr)>>>>)>>), List(<<>>),
             List(<<Dict(<<<<"ipv6addr", Str("bad")>>>>)>>)}
      [] name = "members" -> {List(<<Dict(<<<<"name", Str("m2")>>>>)>>), List(<<>>)}
      [] name \in AddressNames -> {Str(V4Other)}
      [] name = "_ref" -> {Str("ref/2")}
      [] OTHER -> {Str("srv")}

\* the dicts kws, and each of them with one more of pairs under a new key
Extend(kws, pairs) ==
    kws \cup {Append(x[1], x[2]) : x \in {y \in kws \X pairs : ~HasKey(y[1], y[2][1])}}

\* the dicts of at most n of pairs, with distinct keys
RECURSIVE DictsOf(_, _)
DictsOf(pairs, n) == IF n = 0 THEN {EmptyDict} ELSE Extend(DictsOf(pairs, n - 1), pairs)

ArgPairs(cls) == UNION {{<<k, v>> : v \in ArgValues(cls, k)} : k \in ArgNames(cls)}
Kwargs(cls) == DictsOf(ArgPairs(cls), MaxArgs)
CreateKwargs(cls) == DictsOf(ArgPairs(cls), MaxCreateArgs)

DispatchPairs == SeqToSet(DispatchNames) \X {Str(V4Addr), Str(V6Addr)}
DispatchKwargs == DictsOf(DispatchPairs, MaxArgs)

\* the fields the server is asked for: the return fields, or the declared
\* fields of a class that names none
ReplyOrder(c) == IF _return_fields(c) # <<>> THEN _return_fields(c) ELSE _fields(c)
\* the fields a reply of the server carries besides _ref
ReplyNames(c) == RoleNames(c) \cap (SeqToSet(ReplyOrder(c)) \ {"_ref"})
ReplyPairs(c) == UNION {{<<k, v>> : v \in ServerValue(c, k)} : k \in ReplyNames(c)}
\* where name first stands in order
PlaceIn(order, name) ==
    CHOOSE i \in DOMAIN order :
        order[i] = name /\ \A j \in 1..(i - 1) : order[j] # name
\* the replies kws, and each of them with one more of pairs, its key further
\* on in order than the keys the reply holds
ExtendInOrder(kws, pairs, order) ==
    kws \cup {Append(x[1], x[2]) :
              x \in {y \in kws \X pairs :
                        \A i \in DOMAIN y[1] :
                           PlaceIn(order, y[1][i][1]) < PlaceIn(order, y[2][1])}}
\* the replies of at most n of pairs, their keys in the order of order
RECURSIVE RepliesOf(_, _, _)
RepliesOf(pairs, order, n) ==
    IF n = 0 THEN {EmptyDict}
    ELSE ExtendInOrder(RepliesOf(pairs, order, n - 1), pairs, order)
ReplyPayloads(c) ==
    {<<<<"_ref", Str("ref/srv")>>>> \o kw :
        kw \in RepliesOf(ReplyPairs(c), ReplyOrder(c), MaxReply)}

\* the payloads update_from_dict is given
UpdatePairs(c) ==
    UNION {{<<k, v>> : v \in ServerValue(c, k) \cup ArgValues(c, k)} :
           k \in RoleNames(c) \cup {"bogus"}}
UpdatePayloads(c) == DictsOf(UpdatePairs(c), MaxReply) \ {EmptyDict}

\* the replies of the connector: to get_object by reference, to get_object by
\* the search fields, to create_object / update_object
ByRefReplies(c) == {None} \cup {Dict(p) : p \in ReplyPayloads(c)}
BySearchReplies(c) == {List(<<>>)} \cup {List(<<Dict(p)>>) : p \in ReplyPayloads(c)}
WriteReplies(c) == {Str("ref/new")} \cup {Dict(p) : p \in ReplyPayloads(c)}
\* how delete_object ends
DeleteOutcomes == {"ok", "InfobloxCannotDeleteObject", "InfobloxConnectionError"}

PyBool(b) == [kind |-> "bool", b |-> b]
NoOp == [name |-> "none"]
IsWrite(call) == call.fn \in {"create_object", "update_object"}

\* InfobloxObject.to_dict(mode) on a resource, SubObjects.to_dict() on a sub-object
ToDictOf(c, d, mode) ==
    IF c \in ResourceClasses THEN Dict(to_dict(c, d, mode)) ELSE SubObjects_to_dict(c, d)

-----------------------------------------------------------------------------
(* The state machine: one instance at a time is made and operated on *)

Init ==
    /\ pc = "idle"
    /\ obj = None
    /\ op = NoOp
    /\ calls = <<>>
    /\ res = Returned(None)

Constructed(cls, kwargs, made) ==
    /\ pc' = "done"
    /\ obj' = made.d
    /\ op' = [name |-> "construct", cls |-> cls, kwargs |-> kwargs]
    /\ calls' = <<>>
    /\ res' = Outcome(made)

\* cls(connector, **kwargs), or cls(**kwargs) of a sub-object
Construct ==
    /\ pc = "idle"
    /\ \E cls \in AllClasses : \E kwargs \in Kwargs(cls) :
          Constructed(cls, kwargs, New(cls, kwargs))

\* cls.get_class_from_args(kwargs)
GetClassFromArgs ==
    /\ pc = "idle"
    /\ \E cls \in ResourceClasses : \E kwargs \in DispatchKwargs :
          /\ op' = [name |-> "get_class_from_args", cls |-> cls, kwargs |-> kwargs]
          /\ res' = Returned(Str(get_class_from_args(cls, kwargs)))
    /\ pc' = "done"
    /\ calls' = <<>>
    /\ obj' = None

SetAttrDone(name, value, r) ==
    /\ pc' = "done"
    /\ obj' = Instance(obj.cls, r.d)
    /\ op' = [name |-> "setattr", field |-> name, value |-> value, before |-> obj]
    /\ calls' = <<>>
    /\ res' = IF r.err = "ok" THEN Returned(None) ELSE Raised(r.err)

\* the caller keeps the instance the constructor returned
Keep ==
    /\ pc = "done"
    /\ op.name = "construct"
    /\ res.kind = "return"
    /\ pc' = "live"
    /\ op' = NoOp
    /\ calls' = <<>>
    /\ res' = Returned(None)
    /\ obj' = obj

\* obj.name = value
SetAttr ==
    /\ pc = "live"
    /\ \E name \in RoleNames(obj.cls) :
          \E value \in ArgValues(obj.cls, name) \cup {None} :
             SetAttrDone(name, value, setattr(obj.cls, obj.d, name, value))

UpdateFromDictDone(ip_dict, r) ==
    /\ pc' = "done"
    /\ obj' = Instance(obj.cls, r.d)
    /\ op' = [name |-> "update_from_dict", ip_dict |-> ip_dict, before |-> obj]
    /\ calls' = <<>>
    /\ res' = IF r.err = "ok" THEN Returned(None) ELSE Raised(r.err)

\* obj.update_from_dict(ip_dict)
UpdateFromDict ==
    /\ pc = "live"
    /\ obj.cls \in ResourceClasses
    /\ \E ip_dict \in UpdatePayloads(obj.cls) :
          UpdateFromDictDone(ip_dict, update_from_dict(obj.cls, obj.d, ip_dict))

\* obj.to_dict(mode)
ToDict ==
    /\ pc = "live"
    /\ \E mode \in IF obj.cls \in ResourceClasses THEN {"all", "only", "exclude"}
                   ELSE {"all"} :
          /\ op' = [name |-> "to_dict", mode |-> mode, before |-> obj]
          /\ res' = Returned(ToDictOf(obj.cls, obj.d, mode))
    /\ pc' = "done"
    /\ calls' = <<>>
    /\ obj' = obj

FetchDone(by_ref, by_search, f) ==
    /\ pc' = "done"
    /\ obj' = Instance(obj.cls, f.d)
    /\ op' = [name |-> "fetch", by_ref |-> by_ref, by_search |-> by_search,
              before |-> obj]
    /\ calls' = f.calls
    /\ res' = IF f.err = "ok" THEN Returned(PyBool(f.ret)) ELSE Raised(f.err)

\* obj.fetch(); a reply is chosen for each lookup that fetch makes
Fetch ==
    /\ pc = "live"
    /\ obj.cls \in ResourceClasses
    /\ \E by_ref \in IF Truthy(ref(obj.cls, obj.d)) THEN ByRefReplies(obj.cls)
                     ELSE {None} :
          \E by_search \in IF Truthy(by_ref) THEN {List(<<>>)}
                           ELSE BySearchReplies(obj.cls) :
             FetchDone(by_ref, by_search, fetch(obj.cls, obj.d, by_ref, by_search))

\* obj.update()
Update ==
    /\ pc = "live"
    /\ obj.cls \in ResourceClasses
    /\ \E write_reply \in WriteReplies(obj.cls) :
          /\ op' = [name |-> "update", write_reply |-> write_reply, before |-> obj]
          /\ calls' = update(obj.cls, obj.d, write_reply).calls
          /\ res' = update(obj.cls, obj.d, write_reply).res
    /\ pc' = "done"
    /\ obj' = obj

\* obj.delete()
Delete ==
    /\ pc = "live"
    /\ obj.cls \in ResourceClasses
    /\ \E outcome \in DeleteOutcomes :
          /\ op' = [name |-> "delete", outcome |-> outcome, before |-> obj]
          /\ calls' = delete(obj.cls, obj.d, outcome).calls
          /\ res' = delete(obj.cls, obj.d, outcome).res
    /\ pc' = "done"
    /\ obj' = obj

CreateDone(cls, kwargs, check_if_exists, update_if_exists, by_ref, by_search, write_reply, made, r) ==
    /\ pc' = "done"
    /\ obj' = r.local
    /\ op' = [name |-> "create", cls |-> cls, kwargs |-> kwargs,
              check_if_exists |-> check_if_exists,
              update_if_exists |-> update_if_exists,
              by_ref |-> by_ref, by_search |-> by_search,
              write_reply |-> write_reply, made |-> made]
    /\ calls' = r.calls
    /\ res' = r.res

\* the replies to the write call of create, None when issued holds none
WriteRepliesAfter(c, issued) ==
    IF \E i \in DOMAIN issued : IsWrite(issued[i]) THEN WriteReplies(c) ELSE {None}

\* create with the instance made and the outcome f of its fetch, for each
\* reply the write call can get
CreateWrites(cls, kwargs, check_if_exists, update_if_exists, by_ref, by_search, made, f) ==
    \E write_reply \in
          WriteRepliesAfter(made.d.cls,
                            CreateLocal(made, f, check_if_exists, update_if_exists,
                                        None).calls) :
       CreateDone(cls, kwargs, check_if_exists, update_if_exists, by_ref,
                  by_search, write_reply, made,
                  CreateLocal(made, f, check_if_exists, update_if_exists, write_reply))

\* the replies create needs of the connector, given the instance it starts from
CreateReplies(cls, kwargs, check_if_exists, update_if_exists, made) ==
    \E by_ref \in IF made.err = "ok" /\ check_if_exists
                     /\ Truthy(ref(made.d.cls, made.d.d))
                  THEN ByRefReplies(made.d.cls) ELSE {None} :
       \E by_search \in IF made.err = "ok" /\ check_if_exists /\ ~Truthy(by_ref)
                        THEN BySearchReplies(made.d.cls) ELSE {List(<<>>)} :
          CreateWrites(cls, kwargs, check_if_exists, update_if_exists, by_ref,
                       by_search, made,
                       fetch(made.d.cls, made.d.d, by_ref, by_search))

\* cls.create(connector, check_if_exists, update_if_exists, **kwargs)
Create ==
    /\ pc = "idle"
    /\ \E cls \in ResourceClasses : \E kwargs \in CreateKwargs(cls) :
          \E check_if_exists \in BOOLEAN : \E update_if_exists \in BOOLEAN :
             CreateReplies(cls, kwargs, check_if_exists, update_if_exists,
                           New(cls, kwargs))

\* the instance is dropped
Reset ==
    /\ pc \in {"live", "done"}
    /\ pc' = "idle"
    /\ obj' = None
    /\ op' = NoOp
    /\ calls' = <<>>
    /\ res' = Returned(None)

Next ==
    \/ Construct
    \/ GetClassFromArgs
    \/ Keep
    \/ SetAttr
    \/ UpdateFromDict
    \/ ToDict
    \/ Fetch
    \/ Update
    \/ Delete
    \/ Create
    \/ Reset

Spec == Init /\ [][Next]_vars

-----------------------------------------------------------------------------
(* What the properties below speak of *)

\* every declared and shadow field of a class
AllFields(c) == SeqToSet(_fields(c)) \cup SeqToSet(_shadow_fields(c))
\* the value a caller reads from a field, None for a field that cannot be read
Read(o, name) == getattr_or_none(o.cls, o.d, name)
\* the indices of the calls to fn among the connector calls of the last operation
CallsTo(fn) == {i \in DOMAIN calls : calls[i].fn = fn}
\* a create whose existence check found the object on the server
CreateFoundMatch ==
    /\ pc = "done"
    /\ op.name = "create"
    /\ op.check_if_exists
    /\ Truthy(op.by_ref) \/ Truthy(op.by_search)
\* the reply in which the existence check of create found the object
MatchOf(o) == IF Truthy(o.by_ref) THEN o.by_ref.items ELSE o.by_search.items[1].items
\* payload is the view of instance o over names: each of names that is not
\* None, rendered
IsViewOf(payload, o, names) ==
    /\ payload.kind = "dict"
    /\ Keys(payload.items) = {f \in names : Read(o, f) # None}
    /\ \A f \in Keys(payload.items) :
          Lookup(payload.items, f) = ListToDict(getattr(o.cls, o.d, f))
\* the leaf of each family
V4Leaf(cls) ==
    CASE cls = "Network" -> "NetworkV4"
      [] cls = "HostRecord" -> "HostRecordV4"
      [] cls = "IPRange" -> "IPRangeV4"
      [] cls = "FixedAddress" -> "FixedAddressV4"
      [] cls = "ARecordBase" -> "ARecord"
      [] cls = "PtrRecord" -> "PtrRecordV4"
      [] cls = "IPAddress" -> "IPv4Address"
V6Leaf(cls) ==
    CASE cls = "Network" -> "NetworkV6"
      [] cls = "HostRecord" -> "HostRecordV6"
      [] cls = "IPRange" -> "IPRangeV6"
      [] cls = "FixedAddress" -> "FixedAddressV6"
      [] cls = "ARecordBase" -> "AAAARecord"
      [] cls = "PtrRecord" -> "PtrRecordV6"
      [] cls = "IPAddress" -> "IPv6Address"
\* the address-bearing argument the dispatch looks at, None without one
FirstAddress(kwargs) ==
    IF HasKey(kwargs, "ip") THEN Lookup(kwargs, "ip")
    ELSE IF HasKey(kwargs, "cidr") THEN Lookup(kwargs, "cidr")
    ELSE IF HasKey(kwargs, "start_ip") THEN Lookup(kwargs, "start_ip")
    ELSE IF HasKey(kwargs, "ip_address") THEN Lookup(kwargs, "ip_address")
    ELSE None
\* the class the dispatch is to choose
Dispatched(cls, kwargs) ==
    IF cls \notin EntryClasses THEN cls
    ELSE IF FirstAddress(kwargs) = Str(V6Addr) THEN V6Leaf(cls)
    ELSE V4Leaf(cls)
\* the hint field and the list field of a host-record leaf
HintField(c) == IF c = "HostRecordV4" THEN "ipv4addr" ELSE "ipv6addr"
ListField(c) == IF c = "HostRecordV4" THEN "ipv4addrs" ELSE "ipv6addrs"

-----------------------------------------------------------------------------
(* Properties *)

\* C1: create(check_if_exists=True, update_if_exists=False) whose lookup
\* returns a match issues no create_object and no update_object call and
\* returns normally an instance that holds the fields of the match.
C1_MatchReturnedWithoutWrite ==
    (CreateFoundMatch /\ ~op.update_if_exists) =>
        /\ \A i \in DOMAIN calls : ~IsWrite(calls[i])
        /\ res.kind = "return"
        /\ res.v.kind = "obj"
        /\ \A k \in Keys(MatchOf(op)) : Read(res.v, k) = Lookup(MatchOf(op), k)

\* C2: create(check_if_exists=True, update_if_exists=True) whose lookup
\* returns a match issues exactly one update_object call and no create_object
\* call, and the payload of the update is the exclude-search view of the
\* instance: no search field, only declared non-search fields that are not None.
C2_MatchUpdatedOnce ==
    (CreateFoundMatch /\ op.update_if_exists) =>
        /\ Cardinality(CallsTo("update_object")) = 1
        /\ CallsTo("create_object") = {}
        /\ \A i \in CallsTo("update_object") :
              /\ Keys(calls[i].payload.items) \cap SeqToSet(_search_fields(obj.cls)) = {}
              /\ IsViewOf(calls[i].payload, obj,
                          SeqToSet(_fields(obj.cls)) \ SeqToSet(_search_fields(obj.cls)))

\* a create that got as far as the write decision with no reference handle
\* and no match
CreateOfNew ==
    /\ pc = "done"
    /\ op.name = "create"
    /\ op.made.err = "ok"
    /\ ~Truthy(Read(op.made.d, "_ref"))
    /\ ~op.check_if_exists \/ ~(Truthy(op.by_ref) \/ Truthy(op.by_search))

\* C3: create on an instance without a reference handle, when
\* check_if_exists is false or the lookup finds no match, issues exactly one
\* create_object call with the wire type and the full payload, the last call
\* it makes, issues no update_object call, and returns the instance parsed
\* from the reply: of a bare reference string, an instance of the same class
\* whose only field that is not None is the reference handle.
C3_CreateIssuedOnce ==
    CreateOfNew =>
        /\ Cardinality(CallsTo("create_object")) = 1
        /\ CallsTo("update_object") = {}
        /\ ~op.check_if_exists => Len(calls) = 1
        /\ calls[Len(calls)].fn = "create_object"
        /\ calls[Len(calls)].target = Str(_infoblox_type(obj.cls))
        /\ calls[Len(calls)].return_fields = _return_fields(obj.cls)
        /\ IsViewOf(calls[Len(calls)].payload, obj, SeqToSet(_fields(obj.cls)))
        /\ op.write_reply.kind = "str" =>
              /\ res.kind = "return"
              /\ res.v.kind = "obj"
              /\ res.v.cls = obj.cls
              /\ Read(res.v, "_ref") = op.write_reply
              /\ \A f \in AllFields(obj.cls) \ {"_ref"} : Read(res.v, f) = None
        /\ (op.write_reply.kind = "dict" /\ res.kind = "return") =>
              /\ res.v.kind = "obj"
              /\ res.v.cls = obj.cls
              /\ \A k \in Keys(op.write_reply.items) \ SeqToSet(CustomFields(obj.cls)) :
                    Read(res.v, k) = Lookup(op.write_reply.items, k)

\* C3 witness: a create with the existence check, no match and a bare
\* reference string for a reply has returned the parsed instance
C3_Witness ==
    /\ CreateOfNew
    /\ op.check_if_exists
    /\ op.kwargs # <<>>
    /\ op.write_reply.kind = "str"
    /\ res.kind = "return"
    /\ Len(calls) = 2

\* C4 as the specification states it: with a reference handle the only
\* connector call of fetch is one get_object by that handle, and fetch
\* returns False when it returns nothing; the get_object by the search
\* fields is issued only without a reference handle.
C4_LookupChosenByHandle ==
    (pc = "done" /\ op.name = "fetch") =>
        /\ Truthy(Read(op.before, "_ref")) =>
              /\ calls = <<GetObject(Read(op.before, "_ref"), NoPayload,
                                     _return_fields(obj.cls))>>
              /\ ~Truthy(op.by_ref) => res = Returned(PyBool(FALSE))
        /\ (\E i \in DOMAIN calls : calls[i].payload # NoPayload) =>
              ~Truthy(Read(op.before, "_ref"))

\* C4 amended: with a reference handle the first connector call of fetch is
\* one get_object by that handle; the get_object by the search fields, with
\* the wire type and the search-only view, is issued exactly when there is no
\* reference handle or the lookup by handle returned nothing, and it is the
\* last call; fetch returns False exactly when every lookup it made returned
\* nothing.
C4_SearchWhenHandleFindsNothing ==
    (pc = "done" /\ op.name = "fetch") =>
        /\ Truthy(Read(op.before, "_ref")) =>
              calls[1] = GetObject(Read(op.before, "_ref"), NoPayload,
                                   _return_fields(obj.cls))
        /\ Len(calls) = (IF Truthy(Read(op.before, "_ref")) THEN 1 ELSE 0)
                        + (IF Truthy(Read(op.before, "_ref")) /\ Truthy(op.by_ref)
                           THEN 0 ELSE 1)
        /\ ~(Truthy(Read(op.before, "_ref")) /\ Truthy(op.by_ref)) =>
              /\ calls[Len(calls)].fn = "get_object"
              /\ calls[Len(calls)].target = Str(_infoblox_type(obj.cls))
              /\ IsViewOf(calls[Len(calls)].payload, op.before,
                          SeqToSet(_search_fields(obj.cls)))
        /\ res.kind = "return" =>
              res.v = PyBool(Truthy(op.by_ref) \/ Truthy(op.by_search))

\* C4 witness: a fetch on an instance with a reference handle whose lookup by
\* handle returned nothing went on to the lookup by the search fields
C4_Witness ==
    /\ pc = "done"
    /\ op.name = "fetch"
    /\ Truthy(Read(op.before, "_ref"))
    /\ ~Truthy(op.by_ref)
    /\ Len(calls) = 2
    /\ res = Returned(PyBool(TRUE))

\* C5: update_from_dict of a payload whose keys are declared or shadow
\* fields of the class completes without error, leaves each field the payload
\* names at the payload's value and every other field at its prior value; a
\* fetch that finds nothing returns False and leaves every field unchanged.
C5_MergeSetsNamedFieldsOnly ==
    /\ (/\ pc = "done"
        /\ op.name = "update_from_dict"
        /\ Keys(op.ip_dict) \subseteq AllFields(obj.cls)) =>
           /\ res = Returned(None)
           /\ \A k \in Keys(op.ip_dict) : Read(obj, k) = Lookup(op.ip_dict, k)
           /\ \A f \in AllFields(obj.cls) \ Keys(op.ip_dict) :
                 Read(obj, f) = Read(op.before, f)
    /\ (/\ pc = "done"
        /\ op.name = "fetch"
        /\ ~Truthy(op.by_ref)
        /\ ~Truthy(op.by_search)) =>
           /\ res = Returned(PyBool(FALSE))
           /\ obj = op.before

\* C6: delete issues one delete_object call by the reference handle; it
\* returns normally when the call raises InfobloxCannotDeleteObject, and any
\* other exception of the call reaches the caller unchanged.
C6_DeleteSwallowsOnlyCannotDelete ==
    (pc = "done" /\ op.name = "delete") =>
        /\ calls = <<DeleteObject(Read(op.before, "_ref"))>>
        /\ op.outcome \in {"ok", "InfobloxCannotDeleteObject"} => res = Returned(None)
        /\ op.outcome \notin {"ok", "InfobloxCannotDeleteObject"} =>
              res = Raised(op.outcome)
        /\ obj = op.before

\* C6 witness: a delete whose delete_object raised InfobloxCannotDeleteObject
\* has returned normally
C6_Witness ==
    /\ pc = "done"
    /\ op.name = "delete"
    /\ op.outcome = "InfobloxCannotDeleteObject"
    /\ Truthy(Read(op.before, "_ref"))
    /\ res = Returned(None)

\* C7: for every class and every alias a of its alias table with canonical
\* field f, an instance constructed with a=v reads v under a and under f, and
\* after the write f=w it reads w under a.
C7_AliasSharesSlot ==
    /\ (pc = "done" /\ op.name = "construct" /\ res.kind = "return") =>
           \A a \in Keys(op.kwargs) \cap Keys(_remap(obj.cls)) :
              (\A k \in Keys(op.kwargs) \ {a} :
                  /\ k # Lookup(_remap(obj.cls), a)
                  /\ HasKey(_remap(obj.cls), k) =>
                        Lookup(_remap(obj.cls), k) # Lookup(_remap(obj.cls), a)) =>
                 /\ getattr(obj.cls, obj.d, a) = Lookup(op.kwargs, a)
                 /\ getattr(obj.cls, obj.d, Lookup(_remap(obj.cls), a))
                       = Lookup(op.kwargs, a)
    /\ (pc = "done" /\ op.name = "setattr" /\ res.kind = "return") =>
           \A a \in Keys(_remap(obj.cls)) :
              Lookup(_remap(obj.cls), a) = op.field =>
                 getattr(obj.cls, obj.d, a) = op.value

\* C8: the mapping to_dict returns, in every mode, has no key that is a
\* shadow field of the class and no key whose field is None.
C8_NoShadowNoAbsentKeys ==
    (pc = "done" /\ op.name = "to_dict") =>
        /\ Keys(res.v.items) \cap SeqToSet(_shadow_fields(obj.cls)) = {}
        /\ \A k \in Keys(res.v.items) : Read(obj, k) # None

\* C9: a family entry point yields its v6 leaf when the first of ip, cidr,
\* start_ip, ip_address among the arguments is an IPv6 literal, its v4 leaf
\* when it is an IPv4 literal or when there is none; a class whose family is
\* fixed yields itself whatever the arguments.
C9_DispatchByFirstAddress ==
    /\ (pc = "done" /\ op.name = "get_class_from_args") =>
           res = Returned(Str(Dispatched(op.cls, op.kwargs)))
    /\ (pc = "done" /\ op.name = "construct" /\ op.cls \in ResourceClasses) =>
           obj.cls = Dispatched(op.cls, op.kwargs)

\* C9 witness: the entry point Network, given an IPv6 cidr before an IPv4 ip,
\* has been dispatched by the ip
C9_Witness ==
    /\ pc = "done"
    /\ op.name = "get_class_from_args"
    /\ op.cls = "Network"
    /\ op.kwargs = <<<<"cidr", Str(V6Addr)>>, <<"ip", Str(V4Addr)>>>>
    /\ res = Returned(Str("NetworkV4"))

\* C10: on a host-record leaf, after address-list setter calls of which the
\* last passes a bare address string s, the hint field is s, the list field
\* is absent and to_dict emits no address-list field.
C10_StringClearsList ==
    (/\ pc = "done"
     /\ op.name = "setattr"
     /\ obj.cls \in HostRecordLeaves
     /\ op.field \in {"ip", ListField(obj.cls)}
     /\ op.value.kind = "str") =>
        /\ res = Returned(None)
        /\ Read(obj, HintField(obj.cls)) = op.value
        /\ Read(obj, ListField(obj.cls)) = None
        /\ ~HasKey(to_dict(obj.cls, obj.d, "all"), ListField(obj.cls))

\* a value of a shape the address-list setter supports: a string, an address
\* sub-object, a non-empty sequence of address sub-objects, or None
SupportedShape(v) ==
    \/ v.kind \in {"str", "none"}
    \/ v.kind = "obj" /\ v.cls \in IPClasses
    \/ /\ v.kind = "list"
       /\ v.items # <<>>
       /\ \A i \in DOMAIN v.items :
             v.items[i].kind = "obj" /\ v.items[i].cls \in IPClasses

\* C11: on a host-record leaf, the address-list setter given an empty
\* sequence, or any other value of an unsupported shape, raises ValueError
\* and leaves the hint field and the list field as they were.
C11_UnsupportedShapeIsValueError ==
    (/\ pc = "done"
     /\ op.name = "setattr"
     /\ obj.cls \in HostRecordLeaves
     /\ op.field \in {"ip", ListField(obj.cls)}
     /\ ~SupportedShape(op.value)) =>
        /\ res = Raised("ValueError")
        /\ obj = op.before

\* the family-specific slot of AnyMember for an address, and the other one
SlotOf(address) == IF determine_ip_version(address) = 6 THEN "ipv6addr" ELSE "ipv4addr"
OtherSlotOf(address) == IF determine_ip_version(address) = 6 THEN "ipv4addr" ELSE "ipv6addr"
\* an AnyMember as writes to its address attribute alone leave it, by C12:
\* no slot populated, or only the slot of the address it holds
OneSlotAtMost(o) ==
    \/ Read(o, "ip") = None /\ Read(o, "ipv4addr") = None /\ Read(o, "ipv6addr") = None
    \/ /\ Read(o, "ip").kind = "str"
       /\ Read(o, SlotOf(Read(o, "ip"))) = Read(o, "ip")
       /\ Read(o, OtherSlotOf(Read(o, "ip"))) = None

\* C12: on an AnyMember whose slots were populated by writes to its address
\* attribute only, a write of an address literal leaves the slot of the
\* address's family holding the address and the other slot None, and
\* to_dict emits exactly one of ipv4addr / ipv6addr.
C12_OneFamilySlotPopulated ==
    (/\ pc = "done"
     /\ op.name = "setattr"
     /\ obj.cls = "AnyMember"
     /\ op.field = "ip"
     /\ op.value.kind = "str"
     /\ OneSlotAtMost(op.before)) =>
        /\ res = Returned(None)
        /\ Read(obj, SlotOf(op.value)) = op.value
        /\ Read(obj, OtherSlotOf(op.value)) = None
        /\ Cardinality(Keys(SubObjects_to_dict(obj.cls, obj.d).items)
                       \cap {"ipv4addr", "ipv6addr"}) = 1

\* the declared fields, the shadow fields and the alias keys of class c are
\* pairwise disjoint, and every alias of c maps to one of its fields
DisjointNames(c) ==
    /\ SeqToSet(_fields(c)) \cap SeqToSet(_shadow_fields(c)) = {}
    /\ SeqToSet(_fields(c)) \cap Keys(_remap(c)) = {}
    /\ SeqToSet(_shadow_fields(c)) \cap Keys(_remap(c)) = {}
    /\ \A a \in Keys(_remap(c)) : Lookup(_remap(c), a) \in AllFields(c)

\* C13: for the class a constructor is called on and for the class of the
\* instance it makes, whichever descriptor of the source they are, the
\* declared field names, the shadow field names and the alias keys are
\* pairwise disjoint, and every alias maps to a declared or shadow field.
C13_DescriptorNamesDisjoint ==
    (pc = "done" /\ op.name = "construct") =>
        /\ DisjointNames(op.cls)
        /\ obj.kind = "obj" => DisjointNames(obj.cls)

\* the declared non-search fields the caller of create supplied: those the
\* instance made from the arguments holds a value for
SuppliedToWrite(made) ==
    {f \in SeqToSet(_fields(made.cls)) \ SeqToSet(_search_fields(made.cls)) :
        Read(made, f) # None}

\* C14: in create(check_if_exists=True, update_if_exists=True) whose lookup
\* returns a match, the payload of update_object carries, for every declared
\* non-search field the caller supplied, the caller's value and not the
\* value the lookup returned.
C14_UpdateCarriesCallerValues ==
    (CreateFoundMatch /\ op.update_if_exists /\ op.made.err = "ok") =>
        \A i \in CallsTo("update_object") :
           \A f \in SuppliedToWrite(op.made.d) :
              /\ HasKey(calls[i].payload.items, f)
              /\ Lookup(calls[i].payload.items, f)
                    = ListToDict(getattr(op.made.d.cls, op.made.d.d, f))

====
